---- MODULE Spec2Model ----
(***************************************************************************)
(* Model of plugin/plugin.go of drone-cache: the Plugin.Exec entry point,  *)
(* the processRebuild and processRestore passes and the hash key           *)
(* derivation.  Strings are sequences of one-character strings.  The       *)
(* cache package (Upload, Download) and the S3 provider are not part of    *)
(* plugin.go: they are modelled from their contract as a store of objects  *)
(* addressed by path, with archive and extract as exact inverses.          *)
(***************************************************************************)
EXTENDS Integers, Sequences, FiniteSets, TLC

VARIABLES p, pc, i, result, remote, local, trace, run, built, start, hin, hout, conf

vars == <<p, pc, i, result, remote, local, trace, run, built, start, hin, hout, conf>>

(***************************************************************************)
(* Bounds of the model.                                                    *)
(***************************************************************************)
\* longest mount list of a configuration
MaxMounts == 3
\* number of Exec invocations (builds) that share the remote store
MaxRuns == 2
\* longest mount or branch string given to hash in the key-derivation runs
MaxStrLen == 2

(***************************************************************************)
(* Strings.                                                                *)
(***************************************************************************)
Chars == {"a", "b"}

RECURSIVE StrUpTo(_)
StrUpTo(n) ==
    IF n = 0 THEN {<<>>}
    ELSE LET S == StrUpTo(n - 1)
         IN  S \cup {Append(s, c) : s \in {t \in S : Len(t) = n - 1}, c \in Chars}

\* mount paths and branch names of the orchestration runs; "a"+"ba" and
\* "ab"+"a" are two (mount, branch) pairs with the same concatenation
Mounts == {<<"a">>, <<"a", "b">>}
Branches == {<<"a">>, <<"b", "a">>}
Repos == {<<>>, <<"r", "/">>}

RECURSIVE SeqsUpTo(_, _)
SeqsUpTo(S, n) ==
    IF n = 0 THEN {<<>>}
    ELSE LET T == SeqsUpTo(S, n - 1)
         IN  T \cup {Append(s, x) : s \in {t \in T : Len(t) = n - 1}, x \in S}

\* contents of a local directory
Dirs == {"treeA", "treeB"}

(***************************************************************************)
(* hash: md5 over mount then branch, rendered with %x.                     *)
(***************************************************************************)
\* md5.Size: bytes of a digest
Md5Size == 16

CharCode(c) == CASE c = "a" -> 1 [] c = "b" -> 2 [] c = "/" -> 3 [] OTHER -> 4

\* io.WriteString(h, part): the hash state is the bytes written so far
WriteString(h, part) == h \o part

Pack[bytes \in Seq(STRING)] ==
    IF bytes = <<>> THEN 0
    ELSE CharCode(Head(bytes)) + 5 * Pack[Tail(bytes)]

ToBytes[n \in Nat, len \in Nat] ==
    IF len = 0 THEN <<>>
    ELSE Append(ToBytes[n \div 256, len - 1], n % 256)

\* h.Sum(nil): the digest of the bytes written.  MD5 is replaced by a
\* function that is injective on the byte sequences of the model (a packed
\* numbering of the bytes, laid out in Md5Size bytes): the digest is taken
\* to be collision-free, every collision of hash then comes from its input.
Sum(h) == ToBytes[Pack[h], Md5Size]

HexDigit == <<"0", "1", "2", "3", "4", "5", "6", "7",
              "8", "9", "a", "b", "c", "d", "e", "f">>

\* fmt.Sprintf("%x", bytes): two lowercase hex digits per byte
SprintfX[bytes \in Seq(0..255)] ==
    IF bytes = <<>> THEN <<>>
    ELSE <<HexDigit[(Head(bytes) \div 16) + 1], HexDigit[(Head(bytes) % 16) + 1]>>
         \o SprintfX[Tail(bytes)]

\* faulty variant: the key is derived from the branch alone
hashBranchOnly(mount, branch) ==
    SprintfX[Sum(WriteString(<<>>, branch))]

\* faulty variant: the key is derived from the mount alone
hashMountOnly(mount, branch) ==
    SprintfX[Sum(WriteString(<<>>, mount))]

hash(mount, branch) ==
    LET parts == <<mount, branch>>
        h == WriteString(WriteString(<<>>, parts[1]), parts[2])
    IN  SprintfX[Sum(h)]

(***************************************************************************)
(* filepath.Join(p.Repo, cacheKey).                                        *)
(***************************************************************************)
\* repeated separators count as one
Collapse[s \in Seq(STRING)] ==
    IF Len(s) <= 1 THEN s
    ELSE IF s[1] = "/" /\ s[2] = "/" THEN Collapse[Tail(s)]
    ELSE <<s[1]>> \o Collapse[Tail(s)]

\* filepath.Clean on paths without "." elements: repeated separators
\* collapse and a trailing separator is dropped, except for the root
Clean(s) ==
    LET c == Collapse[s]
    IN  IF Len(c) > 1 /\ c[Len(c)] = "/" THEN SubSeq(c, 1, Len(c) - 1) ELSE c

\* filepath.Join of two elements: empty elements are ignored, the rest are
\* joined with the separator and cleaned
Join(a, b) ==
    IF a = <<>> /\ b = <<>> THEN <<>>
    ELSE IF a = <<>> THEN Clean(b)
    ELSE IF b = <<>> THEN Clean(a)
    ELSE Clean(a \o <<"/">> \o b)

\* faulty variant: the key is used as the path, outside the repo namespace
RebuildPathNoRepo(plugin, mount) == hash(mount, plugin.Branch)

\* lines 93-94: the remote path processRebuild uploads a mount to
RebuildPath(plugin, mount) ==
    LET cacheKey == hash(mount, plugin.Branch)
    IN  Join(plugin.Repo, cacheKey)

\* faulty variant: the arguments of hash are swapped in processRestore
RestorePathSwapped(plugin, mount) ==
    LET cacheKey == hash(plugin.Branch, mount)
    IN  Join(plugin.Repo, cacheKey)

\* lines 109-110: the remote path processRestore downloads a mount from
RestorePath(plugin, mount) ==
    LET cacheKey == hash(mount, plugin.Branch)
    IN  Join(plugin.Repo, cacheKey)

(***************************************************************************)
(* The cache package and the provider, from their contract.                *)
(***************************************************************************)
\* archive(localDir) and extract(stream, localDir): exact inverses
Archive(dir) == [tar |-> dir]
Extract(stream) == stream.tar

\* provider put: creates or overwrites the object at the path
Put(store, path, obj) ==
    [q \in (DOMAIN store) \cup {path} |-> IF q = path THEN obj ELSE store[q]]

\* provider get: the object at the path, NotFound when there is none
Has(store, path) == path \in DOMAIN store

\* the errors a transfer may return besides NotFound; the kinds of the
\* taxonomy other than NotFound are handled alike and stand as one
UploadErrs == {"TransportError"}
DownloadErrs == {"TransportError"}

(***************************************************************************)
(* Errors: github.com/pkg/errors values, a cause under a stack of          *)
(* messages, outermost first.                                              *)
(***************************************************************************)
Nil == [msgs |-> <<>>, kind |-> "nil", pos |-> 0]
Pending == [msgs |-> <<>>, kind |-> "pending", pos |-> 0]
\* the error a collaborator returns for the transfer of list position pos
Cause(kind, pos) == [msgs |-> <<>>, kind |-> kind, pos |-> pos]
\* errors.Wrap(err, msg)
Wrap(err, msg) == [err EXCEPT !.msgs = <<msg>> \o @]

(***************************************************************************)
(* Configurations and the observable events of a run.                      *)
(***************************************************************************)
Configs ==
    [Rebuild : BOOLEAN, Restore : BOOLEAN, Mount : SeqsUpTo(Mounts, MaxMounts),
     Branch : Branches, Repo : Repos]

NoObj == [tar |-> "none"]
NoPath == <<"-">>

\* kind: "log" (line 96/112), "call" and "ret" (line 97/113), "summary"
\* (line 101/117); pos is the list position; a call carries the remote path
\* (and the archive, for an upload), a return the error (and the object, for
\* a download)
Event(kind, pass, pos, path, obj, err) ==
    [kind |-> kind, pass |-> pass, pos |-> pos, path |-> path, obj |-> obj, err |-> err]

\* what the last rebuild pass that completed stored, until a later upload
NoBuild ==
    [ok |-> FALSE, Mount |-> <<>>, Branch |-> <<>>, Repo |-> <<>>, objs |-> <<>>,
     dirs |-> [m \in Mounts |-> "none"]]

NoHash == [m1 |-> <<>>, b1 |-> <<>>, m2 |-> <<>>, b2 |-> <<>>, repo |-> <<>>]
NoKeys == [k1 |-> <<>>, k2 |-> <<>>, path1 |-> <<>>, path2 |-> <<>>, done |-> FALSE]

\* no aws.Config built yet
NoCredentials == [static |-> FALSE, key |-> <<>>, secret |-> <<>>, token |-> <<>>]
NoConf ==
    [built |-> FALSE, Region |-> <<>>, Endpoint |-> <<>>, DisableSSL |-> FALSE,
     S3ForcePathStyle |-> FALSE, Credentials |-> NoCredentials]

\* the transfers of a pass that have returned, in order
Rets(t, pass) == SelectSeq(t, LAMBDA e : e.kind = "ret" /\ e.pass = pass)
\* the transfers of a pass that have been issued, in order
Calls(t, pass) == SelectSeq(t, LAMBDA e : e.kind = "call" /\ e.pass = pass)

(***************************************************************************)
(* Initial state: a configured Plugin about to run Exec, an empty remote   *)
(* store and a workspace whose directories differ; later builds run in     *)
(* every workspace.                                                        *)
(***************************************************************************)
Init ==
    /\ p \in Configs
    /\ pc = "Exec"
    /\ i = 0
    /\ result = Pending
    /\ remote = <<>>
    /\ local = [m \in Mounts |-> IF Len(m) = 1 THEN "treeA" ELSE "treeB"]
    /\ trace = <<>>
    /\ run = 1
    /\ built = NoBuild
    /\ start = [remote |-> remote, local |-> local]
    /\ hin = NoHash
    /\ hout = NoKeys
    /\ conf = NoConf

(***************************************************************************)
(* Exec, lines 72-84.                                                      *)
(***************************************************************************)
\* faulty variant: the restore pass runs whatever the flag says
RestoreOrReturnAlways ==
    pc' = "restoreLoop" /\ i' = 1 /\ result' = result

\* lines 78-84: the restore pass if the flag is set, return nil otherwise
RestoreOrReturn ==
    IF p.Restore
    THEN pc' = "restoreLoop" /\ i' = 1 /\ result' = result
    ELSE pc' = "done" /\ i' = 0 /\ result' = Nil

\* faulty variant: the restore flag is looked at first and Exec returns
\* after the restore pass
ExecEnterRestoreFirst ==
    /\ pc = "Exec"
    /\ IF p.Restore
       THEN pc' = "restoreLoop" /\ i' = 1 /\ result' = result
       ELSE IF p.Rebuild
       THEN pc' = "rebuildLoop" /\ i' = 1 /\ result' = result
       ELSE pc' = "done" /\ i' = 0 /\ result' = Nil
    /\ UNCHANGED <<p, remote, local, trace, run, built, start, hin, hout, conf>>

\* lines 72-73: the rebuild pass if the flag is set, on to line 78 otherwise
ExecEnter ==
    /\ pc = "Exec"
    /\ IF p.Rebuild
       THEN pc' = "rebuildLoop" /\ i' = 1 /\ result' = result
       ELSE RestoreOrReturn
    /\ UNCHANGED <<p, remote, local, trace, run, built, start, hin, hout, conf>>

(***************************************************************************)
(* processRebuild, lines 90-103.                                           *)
(***************************************************************************)
\* lines 92-97: next mount of the list, its path, the log line, the call
RebuildNext ==
    /\ pc = "rebuildLoop"
    /\ i <= Len(p.Mount)
    /\ LET mount == p.Mount[i]
           path == RebuildPath(p, mount)
       IN  trace' = trace \o <<Event("log", "rebuild", i, NoPath, NoObj, Nil),
                                Event("call", "rebuild", i, path, Archive(local[mount]), Nil)>>
    /\ pc' = "Upload"
    /\ built' = NoBuild
    /\ UNCHANGED <<p, i, result, remote, local, run, start, hin, hout, conf>>

\* faulty variant: the error of cache.Upload is dropped and the loop goes on
UploadReturnedIgnoreErr(err) ==
    /\ result' = result
    /\ pc' = "rebuildLoop"
    /\ i' = i + 1

\* faulty variant: Exec records the rebuild error but does not return on it
UploadReturnedThenRestore(err) ==
    IF err # Nil
    THEN /\ result' = Wrap(Wrap(err, "could not upload"), "process rebuild failed")
         /\ pc' = IF p.Restore THEN "restoreLoop" ELSE "done"
         /\ i' = 1
    ELSE /\ result' = result
         /\ pc' = "rebuildLoop"
         /\ i' = i + 1

\* faulty variant: a failed upload is tried again instead of returned
UploadReturnedRetry(err) ==
    /\ result' = result
    /\ pc' = "rebuildLoop"
    /\ i' = IF err # Nil THEN i ELSE i + 1

\* faulty variant: the loop skips the position after a successful upload
UploadReturnedSkip(err) ==
    IF err # Nil
    THEN /\ result' = Wrap(Wrap(err, "could not upload"), "process rebuild failed")
         /\ pc' = "done"
         /\ i' = i
    ELSE /\ result' = result
         /\ pc' = "rebuildLoop"
         /\ i' = i + 2

\* lines 97-99 and 73-75: what follows the return of cache.Upload
UploadReturned(err) ==
    IF err # Nil
    THEN /\ result' = Wrap(Wrap(err, "could not upload"), "process rebuild failed")
         /\ pc' = "done"
         /\ i' = i
    ELSE /\ result' = result
         /\ pc' = "rebuildLoop"
         /\ i' = i + 1

\* cache.Upload returns: the object is stored, or an error comes back
UploadReturn ==
    /\ pc = "Upload"
    /\ LET call == trace[Len(trace)]
       IN  \E err \in {Nil} \cup {Cause(k, i) : k \in UploadErrs} :
             /\ remote' = IF err = Nil THEN Put(remote, call.path, call.obj) ELSE remote
             /\ trace' = Append(trace, Event("ret", "rebuild", i, NoPath, call.obj, err))
             /\ UploadReturned(err)
    /\ UNCHANGED <<p, local, run, built, start, hin, hout, conf>>

\* lines 101-102 and 76-84: the summary line, return nil, on to restore
RebuildDone ==
    /\ pc = "rebuildLoop"
    /\ i > Len(p.Mount)
    /\ trace' = Append(trace, Event("summary", "rebuild", 0, NoPath, NoObj, Nil))
    /\ built' = [ok |-> TRUE, Mount |-> p.Mount, Branch |-> p.Branch, Repo |-> p.Repo,
                 objs |-> Calls(trace, "rebuild"), dirs |-> local]
    /\ RestoreOrReturn
    /\ UNCHANGED <<p, remote, local, run, start, hin, hout, conf>>

(***************************************************************************)
(* processRestore, lines 106-119.                                          *)
(***************************************************************************)
\* lines 108-113: next mount of the list, its path, the log line, the call
RestoreNext ==
    /\ pc = "restoreLoop"
    /\ i <= Len(p.Mount)
    /\ LET mount == p.Mount[i]
           path == RestorePath(p, mount)
       IN  trace' = trace \o <<Event("log", "restore", i, NoPath, NoObj, Nil),
                                Event("call", "restore", i, path, NoObj, Nil)>>
    /\ pc' = "Download"
    /\ UNCHANGED <<p, i, result, remote, local, run, built, start, hin, hout, conf>>

\* faulty variant: a missing object is skipped as a cold cache
DownloadReturnedColdCache(err) ==
    IF err # Nil /\ err.kind # "NotFound"
    THEN /\ result' = Wrap(Wrap(err, "could not download"), "process restore failed")
         /\ pc' = "done"
         /\ i' = i
    ELSE /\ result' = result
         /\ pc' = "restoreLoop"
         /\ i' = i + 1

\* faulty variant: a failed download is tried again
DownloadReturnedRetry(err) ==
    /\ result' = result
    /\ pc' = "restoreLoop"
    /\ i' = IF err # Nil THEN i ELSE i + 1

\* faulty variant: the messages of the rebuild pass are used for a
\* failed download
DownloadReturnedUploadMsgs(err) ==
    IF err # Nil
    THEN /\ result' = Wrap(Wrap(err, "could not upload"), "process restore failed")
         /\ pc' = "done"
         /\ i' = i
    ELSE /\ result' = result
         /\ pc' = "restoreLoop"
         /\ i' = i + 1

\* lines 113-115 and 79-81: what follows the return of cache.Download
DownloadReturned(err) ==
    IF err # Nil
    THEN /\ result' = Wrap(Wrap(err, "could not download"), "process restore failed")
         /\ pc' = "done"
         /\ i' = i
    ELSE /\ result' = result
         /\ pc' = "restoreLoop"
         /\ i' = i + 1

\* the errors cache.Download may return for a path
DownloadOutcomes(path) ==
    IF Has(remote, path)
    THEN {Nil} \cup {Cause(k, i) : k \in DownloadErrs}
    ELSE {Cause("NotFound", i), Cause("TransportError", i)}

\* faulty variant: processRestore calls cache.Upload where it should call
\* cache.Download
DownloadReturnUploads ==
    /\ pc = "Download"
    /\ LET call == trace[Len(trace)]
           mount == p.Mount[i]
       IN  \E err \in {Nil, Cause("TransportError", i)} :
             /\ remote' = IF err = Nil
                           THEN Put(remote, call.path, Archive(local[mount]))
                           ELSE remote
             /\ trace' = Append(trace, Event("ret", "restore", i, NoPath, NoObj, err))
             /\ IF err # Nil
                THEN /\ result' = Wrap(Wrap(err, "could not download"),
                                        "process restore failed")
                     /\ pc' = "done"
                     /\ i' = i
                ELSE /\ result' = result
                     /\ pc' = "restoreLoop"
                     /\ i' = i + 1
    /\ UNCHANGED <<p, local, run, built, start, hin, hout, conf>>

\* cache.Download returns: the object is extracted into the mount
\* directory, or an error comes back
DownloadReturn ==
    /\ pc = "Download"
    /\ LET call == trace[Len(trace)]
           mount == p.Mount[i]
       IN  \E err \in DownloadOutcomes(call.path) :
             /\ local' = IF err = Nil
                          THEN [local EXCEPT ![mount] = Extract(remote[call.path])]
                          ELSE local
             /\ trace' = Append(trace, Event("ret", "restore", i, NoPath,
                                              IF err = Nil THEN remote[call.path] ELSE NoObj,
                                              err))
             /\ DownloadReturned(err)
    /\ UNCHANGED <<p, remote, run, built, start, hin, hout, conf>>

\* faulty variant: processRestore returns without its summary line
RestoreDoneNoSummary ==
    /\ pc = "restoreLoop"
    /\ i > Len(p.Mount)
    /\ pc' = "done"
    /\ i' = 0
    /\ result' = Nil
    /\ UNCHANGED <<p, remote, local, trace, run, built, start, hin, hout, conf>>

\* lines 117-118 and 82-84: the summary line, return nil
RestoreDone ==
    /\ pc = "restoreLoop"
    /\ i > Len(p.Mount)
    /\ trace' = Append(trace, Event("summary", "restore", 0, NoPath, NoObj, Nil))
    /\ pc' = "done"
    /\ i' = 0
    /\ result' = Nil
    /\ UNCHANGED <<p, remote, local, run, built, start, hin, hout, conf>>

(***************************************************************************)
(* A later build of the same pipeline: Exec runs again against the same    *)
(* remote store, for some branch, with its own flags, in a workspace whose *)
(* directories may have changed.                                           *)
(***************************************************************************)
NewRun ==
    /\ pc = "done"
    /\ run < MaxRuns
    /\ run' = run + 1
    /\ \E rebuild \in BOOLEAN, restore \in BOOLEAN, branch \in Branches :
         p' = [p EXCEPT !.Rebuild = rebuild, !.Restore = restore, !.Branch = branch]
    /\ local' \in [Mounts -> Dirs]
    /\ pc' = "Exec"
    /\ i' = 0
    /\ result' = Pending
    /\ trace' = <<>>
    /\ start' = [remote |-> remote, local |-> local']
    /\ UNCHANGED <<remote, built, hin, hout, conf>>

Next ==
    \/ ExecEnter
    \/ RebuildNext
    \/ UploadReturn
    \/ RebuildDone
    \/ RestoreNext
    \/ DownloadReturn
    \/ RestoreDone
    \/ NewRun

Spec == Init /\ [][Next]_vars

(***************************************************************************)
(* One call of Exec on its own.  Exec is sequential code: a step that is   *)
(* enabled is taken, and a call of cache.Upload or cache.Download that has *)
(* been issued returns, with nil or with an error.                         *)
(***************************************************************************)
ExecNext ==
    \/ ExecEnter
    \/ RebuildNext
    \/ UploadReturn
    \/ RebuildDone
    \/ RestoreNext
    \/ DownloadReturn
    \/ RestoreDone

SpecLive == Init /\ [][ExecNext]_vars /\ WF_vars(ExecNext)

(***************************************************************************)
(* Key derivation on its own: two (mount, branch) pairs and a repo.        *)
(***************************************************************************)
HashInit ==
    /\ hin \in [m1 : StrUpTo(MaxStrLen), b1 : StrUpTo(MaxStrLen),
                 m2 : StrUpTo(MaxStrLen), b2 : StrUpTo(MaxStrLen), repo : Repos]
    /\ hout = NoKeys
    /\ conf = NoConf
    /\ p = [Rebuild |-> FALSE, Restore |-> FALSE, Mount |-> <<>>,
            Branch |-> <<>>, Repo |-> <<>>]
    /\ pc = "hash"
    /\ i = 0
    /\ result = Pending
    /\ remote = <<>>
    /\ local = [m \in Mounts |-> "treeA"]
    /\ trace = <<>>
    /\ run = 1
    /\ built = NoBuild
    /\ start = [remote |-> remote, local |-> local]

\* lines 93-94 for each of the two pairs
DeriveKeys ==
    /\ pc = "hash"
    /\ ~hout.done
    /\ LET k1 == hash(hin.m1, hin.b1)
           k2 == hash(hin.m2, hin.b2)
       IN  hout' = [k1 |-> k1, k2 |-> k2, path1 |-> Join(hin.repo, k1),
                    path2 |-> Join(hin.repo, k2), done |-> TRUE]
    /\ UNCHANGED <<p, pc, i, result, remote, local, trace, run, built, start, hin, conf>>

HashNext == DeriveKeys

SpecHash == HashInit /\ [][HashNext]_vars

(***************************************************************************)
(* The provider configuration on its own: Exec, lines 54-70, for the       *)
(* endpoints, keys and secrets of a Plugin.                                *)
(***************************************************************************)
Endpoints ==
    { <<>>,
      <<"h", "t", "t", "p", "s", ":", "/", "/", "h">>,
      <<"h", "t", "t", "p", ":", "/", "/", "h">>,
      <<"h", "t", "t", "p", "s", ":", "/", "/">>,
      <<"h", "t", "t", "p", "s", ":", "/", "h">>,
      <<"s", "h", "t", "t", "p", "s", ":", "/", "/", "h">>,
      <<"h">> }

\* strings.HasPrefix
HasPrefix(s, prefix) ==
    Len(s) >= Len(prefix) /\ SubSeq(s, 1, Len(prefix)) = prefix

\* faulty variant: line 58, the test the source has commented out
DisableSSLUnlessHttp(plugin) ==
    HasPrefix(plugin.Endpoint, <<"h", "t", "t", "p", ":", "/", "/">>)

\* line 59: DisableSSL
DisableSSL(plugin) ==
    ~HasPrefix(plugin.Endpoint, <<"h", "t", "t", "p", "s", ":", "/", "/">>)

\* credentials.NewStaticCredentials(id, secret, token)
NewStaticCredentials(id, secret, token) ==
    [static |-> TRUE, key |-> id, secret |-> secret, token |-> token]

\* faulty variant: one of the pair is enough for static credentials
CredentialsEither(plugin) ==
    IF plugin.Key # <<>> \/ plugin.Secret # <<>>
    THEN NewStaticCredentials(plugin.Key, plugin.Secret, <<>>)
    ELSE NoCredentials

\* lines 64-66: conf.Credentials, left unset (the ambient chain of the
\* SDK) unless both the key and the secret are given
Credentials(plugin) ==
    IF plugin.Key # <<>> /\ plugin.Secret # <<>>
    THEN NewStaticCredentials(plugin.Key, plugin.Secret, <<>>)
    ELSE NoCredentials

ConfPlugins ==
    [Rebuild : {FALSE}, Restore : {FALSE}, Mount : {<<>>}, Branch : {<<>>}, Repo : {<<>>},
     Region : {<<>>, <<"a">>}, Endpoint : Endpoints, PathStyle : BOOLEAN,
     Key : StrUpTo(1), Secret : StrUpTo(1)]

ConfInit ==
    /\ p \in ConfPlugins
    /\ conf = NoConf
    /\ pc = "Exec"
    /\ i = 0
    /\ result = Pending
    /\ remote = <<>>
    /\ local = [m \in Mounts |-> "treeA"]
    /\ trace = <<>>
    /\ run = 1
    /\ built = NoBuild
    /\ start = [remote |-> remote, local |-> local]
    /\ hin = NoHash
    /\ hout = NoKeys

\* lines 54-70: the aws.Config and the provider made from it; neither
\* step returns an error
BuildConf ==
    /\ pc = "Exec"
    /\ conf' = [built |-> TRUE, Region |-> p.Region, Endpoint |-> p.Endpoint,
                DisableSSL |-> DisableSSL(p), S3ForcePathStyle |-> p.PathStyle,
                Credentials |-> Credentials(p)]
    /\ pc' = "provider"
    /\ UNCHANGED <<p, i, result, remote, local, trace, run, built, start, hin, hout>>

ConfNext == BuildConf

SpecConf == ConfInit /\ [][ConfNext]_vars

(***************************************************************************)
(* Properties.                                                             *)
(***************************************************************************)
Range(f) == {f[x] : x \in DOMAIN f}
Idx == 1..Len(trace)
FailedRet(k, pass) ==
    trace[k].kind = "ret" /\ trace[k].pass = pass /\ trace[k].err # Nil
\* the path the specification gives a mount: join(repo, deriveKey(mount, branch))
SpecPathOf == [r \in Repos, m \in Mounts, b \in Branches |-> Join(r, hash(m, b))]
SpecPath(k) == SpecPathOf[p.Repo, p.Mount[k], p.Branch]
PassComplete(pass) ==
    LET rs == Rets(trace, pass)
    IN  /\ Len(rs) = Len(p.Mount)
        /\ \A k \in 1..Len(p.Mount) : rs[k].err = Nil

\* C1: when the upload of list position n fails in processRebuild, nothing
\* follows it (no upload for a later position), Exec is left with an error
\* whose cause is the error of that upload, wrapped as "could not upload",
\* and the entries uploaded for the positions before n are in the remote
\* store with the uploaded content.
C1_FailFastRebuild ==
    \A k \in Idx :
        FailedRet(k, "rebuild") =>
            /\ k = Len(trace)
            /\ \A j \in Idx : trace[j].kind = "call" => trace[j].pos <= trace[k].pos
            /\ pc = "done"
            /\ result.kind = trace[k].err.kind
            /\ result.pos = trace[k].pos
            /\ result.kind \in UploadErrs
            /\ "could not upload" \in Range(result.msgs)
            /\ LET cs == Calls(trace, "rebuild")
               IN  \A n \in 1..(trace[k].pos - 1) :
                       /\ cs[n].pos = n
                       /\ Has(remote, cs[n].path)
                       /\ remote[cs[n].path] = cs[n].obj

C1_Witness ==
    /\ pc = "done"
    /\ Len(p.Mount) = 3
    /\ result.kind \in UploadErrs
    /\ result.pos = 2
    /\ Len(Calls(trace, "rebuild")) = 2
    /\ Has(remote, SpecPath(1))

\* C2: when the download of list position n fails in processRestore, for a
\* missing object as for any other error, nothing follows it, Exec is left
\* with an error whose cause is the error of that download, and the mounts
\* of the positions before n hold what was extracted into them.
C2_FailFastRestore ==
    \A k \in Idx :
        FailedRet(k, "restore") =>
            /\ k = Len(trace)
            /\ \A j \in Idx :
                   (trace[j].kind = "call" /\ trace[j].pass = "restore")
                       => trace[j].pos <= trace[k].pos
            /\ pc = "done"
            /\ result # Nil
            /\ result.kind = trace[k].err.kind
            /\ result.pos = trace[k].pos
            /\ "could not download" \in Range(result.msgs)
            /\ LET rs == Rets(trace, "restore")
               IN  \A n \in 1..(trace[k].pos - 1) :
                       /\ rs[n].pos = n
                       /\ rs[n].err = Nil
                       /\ local[p.Mount[n]] = Extract(rs[n].obj)

C2_Witness ==
    /\ pc = "done"
    /\ Len(p.Mount) = 3
    /\ result.kind = "NotFound"
    /\ result.pos = 2
    /\ local[p.Mount[1]] # start.local[p.Mount[1]]

\* C3: in a run with both flags set every event of the rebuild pass comes
\* before every event of the restore pass, and the restore pass has events
\* only once the rebuild pass has uploaded every mount and written its
\* summary line; no transfer of one pass is pending during the other.
C3_PhaseOrdering ==
    (p.Rebuild /\ p.Restore) =>
        /\ \A j, k \in Idx :
               (trace[j].pass = "rebuild" /\ trace[k].pass = "restore") => j < k
        /\ (\E k \in Idx : trace[k].pass = "restore") =>
               /\ PassComplete("rebuild")
               /\ \E k \in Idx : trace[k].kind = "summary" /\ trace[k].pass = "rebuild"
        /\ pc \in {"rebuildLoop", "Upload"} =>
               \A k \in Idx : trace[k].pass = "rebuild"

C3_Witness ==
    /\ pc = "done"
    /\ p.Rebuild /\ p.Restore
    /\ result = Nil
    /\ Len(p.Mount) = 3
    /\ Len(Calls(trace, "restore")) = 3

\* C4: once Exec has returned, a failed rebuild pass means no event of the
\* restore pass and the workspace as it was at the start; the result is nil
\* exactly when every enabled pass transferred every mount without error;
\* and an error result is the first failed transfer, the last event.
C4_FirstErrorWins ==
    pc = "done" =>
        /\ (\E k \in Idx : FailedRet(k, "rebuild")) =>
               /\ \A k \in Idx : trace[k].pass = "rebuild"
               /\ local = start.local
        /\ (result = Nil) <=>
               /\ p.Rebuild => PassComplete("rebuild")
               /\ p.Restore => PassComplete("restore")
        /\ result # Nil =>
               /\ trace # <<>>
               /\ trace[Len(trace)].kind = "ret"
               /\ trace[Len(trace)].err # Nil
               /\ result.kind = trace[Len(trace)].err.kind
               /\ result.pos = trace[Len(trace)].pos
               /\ \A k \in 1..(Len(trace) - 1) : trace[k].err = Nil

C4_Witness ==
    /\ pc = "done"
    /\ p.Rebuild /\ p.Restore
    /\ Len(p.Mount) >= 2
    /\ Has(remote, SpecPath(1))
    /\ \E k \in Idx : FailedRet(k, "rebuild")

\* C5: when a restore pass has succeeded and the last rebuild pass to upload
\* anything was a successful one of the same repo, branch and mount list,
\* then for every list position the download used the path of the upload,
\* join(repo, deriveKey(mount, branch)), returned the object uploaded, and
\* the mount directory holds what it held when it was archived.
C5_RoundTrip ==
    ( /\ pc = "done"
      /\ result = Nil
      /\ p.Restore
      /\ built.ok
      /\ built.Mount = p.Mount /\ built.Branch = p.Branch /\ built.Repo = p.Repo )
    => LET dcs == Calls(trace, "restore")
           dns == Rets(trace, "restore")
       IN  \A k \in 1..Len(p.Mount) :
          LET up == built.objs[k]
              dc == dcs[k]
              dn == dns[k]
          IN  /\ up.pos = k /\ dc.pos = k /\ dn.pos = k
              /\ up.path = SpecPath(k)
              /\ dc.path = up.path
              /\ dn.obj = up.obj
              /\ up.obj = Archive(built.dirs[p.Mount[k]])
              /\ local[p.Mount[k]] = built.dirs[p.Mount[k]]

C5_Witness ==
    /\ pc = "done"
    /\ result = Nil
    /\ run = 2
    /\ p.Restore /\ ~p.Rebuild
    /\ built.ok
    /\ built.Mount = p.Mount /\ built.Branch = p.Branch /\ built.Repo = p.Repo
    /\ p.Mount = << <<"a">>, <<"a", "b">> >>
    /\ \A m \in Mounts : start.local[m] # built.dirs[m]
    /\ built.dirs[<<"a">>] # built.dirs[<<"a", "b">>]

\* C6: with neither flag set Exec issues no transfer and writes no log
\* line, the remote store and the workspace stay as they were at the start,
\* and Exec returns nil.
C6_NoFlagsNoOp ==
    (~p.Rebuild /\ ~p.Restore) =>
        /\ trace = <<>>
        /\ remote = start.remote
        /\ local = start.local
        /\ pc \in {"Exec", "done"}
        /\ pc = "done" => result = Nil

C6_Witness ==
    /\ pc = "done"
    /\ ~p.Rebuild /\ ~p.Restore
    /\ Len(p.Mount) = 3
    /\ result = Nil
    /\ remote # <<>>

\* C7: in each pass the n-th transfer issued is the one of list position n,
\* for the mount at that position; it is issued only after the transfer of
\* position n-1 has returned without error; a transfer returns before
\* anything else happens; no position is transferred twice.
C7_InOrderAtMostOnce ==
    /\ \A pass \in {"rebuild", "restore"} :
          LET cs == Calls(trace, pass)
          IN  /\ Len(cs) <= Len(p.Mount)
              /\ \A n \in 1..Len(cs) : cs[n].pos = n /\ cs[n].path = SpecPath(n)
    /\ \A j \in Idx :
          trace[j].kind = "call" =>
              /\ trace[j].pos > 1 =>
                     \E r \in 1..(j - 1) :
                         /\ trace[r].kind = "ret"
                         /\ trace[r].pass = trace[j].pass
                         /\ trace[r].pos = trace[j].pos - 1
                         /\ trace[r].err = Nil
              /\ j < Len(trace) =>
                     /\ trace[j + 1].kind = "ret"
                     /\ trace[j + 1].pass = trace[j].pass
                     /\ trace[j + 1].pos = trace[j].pos
              /\ j = Len(trace) => pc \in {"Upload", "Download"}

C7_Witness ==
    /\ pc = "done"
    /\ Len(p.Mount) = 3
    /\ Len(Calls(trace, "rebuild")) = 3
    /\ Len(Calls(trace, "restore")) = 2
    /\ result # Nil

\* C8: two (mount, branch) pairs that differ in the mount or in the branch
\* have different keys.
C8_KeyUniqueness ==
    hout.done =>
        ((hin.m1 # hin.m2 \/ hin.b1 # hin.b2) => hout.k1 # hout.k2)

\* C9: in one repo namespace, the same mount under two branches has two
\* remote paths, and two mounts under the same branch have two remote
\* paths.
C9_CacheIsolation ==
    hout.done =>
        /\ (hin.m1 = hin.m2 /\ hin.b1 # hin.b2) => hout.path1 # hout.path2
        /\ (hin.b1 = hin.b2 /\ hin.m1 # hin.m2) => hout.path1 # hout.path2

C9_Witness ==
    /\ hout.done
    /\ hin.m1 = <<"a">> /\ hin.m2 = <<"a", "b">>
    /\ hin.b1 = <<"b">> /\ hin.b2 = hin.b1
    /\ hin.repo # <<>>
    /\ hout.path1 # hout.path2

\* C10: once a rebuild pass has completed, for every list position the
\* remote store has an entry at join(repo, deriveKey(mount, branch)) and it
\* is the archive made of that mount in this run, whatever was there at the
\* start of the run and however often the mount is listed.
C10_RebuildOverwrites ==
    (\E e \in Idx : trace[e].kind = "summary" /\ trace[e].pass = "rebuild") =>
        LET cs == Calls(trace, "rebuild")
        IN  \A k \in 1..Len(p.Mount) :
                LET path == SpecPath(k)
                IN  /\ cs[k].pos = k
                    /\ Has(remote, path)
                    /\ remote[path] = cs[k].obj
                    /\ cs[k].obj = Archive(start.local[p.Mount[k]])

C10_Witness ==
    /\ pc = "done"
    /\ result = Nil
    /\ p.Rebuild
    /\ Len(p.Mount) = 3
    /\ p.Mount[1] = p.Mount[3]
    /\ p.Mount[1] # p.Mount[2]
    /\ Has(start.remote, SpecPath(1))
    /\ start.remote[SpecPath(1)] # remote[SpecPath(1)]
    /\ ~Has(start.remote, SpecPath(2))

\* C11: through a run the remote store keeps every entry it had at the
\* start; an entry is new or differs from the start only at the path
\* join(repo, deriveKey(mount, branch)) of a list position the rebuild pass
\* has uploaded, where it holds that upload; so a run without a rebuild
\* pass, and the restore pass of any run, leave the store as it was.
C11_RemoteFrame ==
    LET cs == Calls(trace, "rebuild")
        rs == Rets(trace, "rebuild")
        ok == {n \in 1..Len(rs) : rs[n].err = Nil}
        written == {SpecPath(n) : n \in ok}
    IN  /\ DOMAIN start.remote \subseteq DOMAIN remote
        /\ \A q \in DOMAIN remote :
               (q \notin DOMAIN start.remote \/ remote[q] # start.remote[q])
                   => q \in written
        /\ \A n \in ok : Has(remote, SpecPath(n)) /\ remote[SpecPath(n)] = cs[n].obj
        /\ rs = <<>> => remote = start.remote

C11_Witness ==
    /\ pc = "done"
    /\ run = 2
    /\ p.Rebuild /\ p.Restore
    /\ result = Nil
    /\ Len(p.Mount) >= 2
    /\ remote # start.remote
    /\ \E q \in DOMAIN start.remote :
          /\ q \notin {SpecPath(n) : n \in 1..Len(p.Mount)}
          /\ remote[q] = start.remote[q]

\* C12: an error returned by Exec is the error of the failed transfer,
\* unchanged, under exactly two messages: "process rebuild failed" over
\* "could not upload" for an upload, "process restore failed" over "could
\* not download" for a download.
C12_ErrorWrapping ==
    (pc = "done" /\ result # Nil) =>
        /\ trace # <<>>
        /\ LET e == trace[Len(trace)]
           IN  /\ e.kind = "ret"
               /\ e.err # Nil
               /\ [result EXCEPT !.msgs = <<>>] = e.err
               /\ e.pass = "rebuild" =>
                      result.msgs = <<"process rebuild failed", "could not upload">>
               /\ e.pass = "restore" =>
                      result.msgs = <<"process restore failed", "could not download">>

C12_Witness ==
    /\ pc = "done"
    /\ p.Restore
    /\ Len(p.Mount) = 3
    /\ result.msgs = <<"process restore failed", "could not download">>
    /\ result.kind = "NotFound"
    /\ result.pos = 2

\* C13: the configuration carries static credentials exactly when both the
\* key and the secret are non-empty, and then those two; with both empty it
\* carries none (ambient resolution) and Exec goes on without an error;
\* with one of the two empty the lone value is not used: no static
\* credentials, or an error.
C13_CredentialSelection ==
    conf.built =>
        /\ conf.Credentials.static <=> (p.Key # <<>> /\ p.Secret # <<>>)
        /\ conf.Credentials.static =>
               conf.Credentials = NewStaticCredentials(p.Key, p.Secret, <<>>)
        /\ ~conf.Credentials.static => conf.Credentials = NoCredentials
        /\ (p.Key = <<>> /\ p.Secret = <<>>) =>
               (result = Pending /\ pc = "provider")
        /\ ((p.Key = <<>>) # (p.Secret = <<>>)) =>
               (conf.Credentials = NoCredentials \/ result \notin {Pending, Nil})

C13_Witness ==
    /\ conf.built
    /\ p.Key # <<>>
    /\ p.Secret = <<>>
    /\ conf.Credentials = NoCredentials
    /\ result = Pending

\* the scheme of a URL: what stands before the first "://"
SchemeOf(e) ==
    LET at == {k \in 1..(Len(e) - 2) : SubSeq(e, k, k + 2) = <<":", "/", "/">>}
    IN  IF at = {} THEN <<>>
        ELSE SubSeq(e, 1, (CHOOSE k \in at : \A j \in at : k <= j) - 1)

C15_SamePathBothPasses ==
    LET ups == Calls(trace, "rebuild")
        dns == Calls(trace, "restore")
    IN  /\ \A k \in 1..Len(dns) : k <= Len(ups) => dns[k].path = ups[k].path
        /\ ( /\ built.ok
              /\ built.Mount = p.Mount /\ built.Branch = p.Branch
              /\ built.Repo = p.Repo )
            => \A k \in 1..Len(dns) : dns[k].path = built.objs[k].path
        /\ \A k \in 1..Len(dns) : dns[k].path = SpecPath(k)
        /\ \A k \in 1..Len(ups) : ups[k].path = SpecPath(k)

C15_Witness ==
    /\ pc = "done"
    /\ run = 2
    /\ ~p.Rebuild /\ p.Restore
    /\ built.ok
    /\ built.Mount = p.Mount /\ built.Branch = p.Branch /\ built.Repo = p.Repo
    /\ p.Mount = << <<"a", "b">>, <<"a">>, <<"a", "b">> >>
    /\ p.Repo # <<>>
    /\ Len(Calls(trace, "restore")) = 3

Summaries(pass) == {k \in Idx : trace[k].kind = "summary" /\ trace[k].pass = pass}
\* a pass that Exec has entered, once Exec has returned
PassRan(pass) ==
    IF pass = "rebuild" THEN p.Rebuild
    ELSE p.Restore /\ ~\E k \in Idx : FailedRet(k, "rebuild")
\* every transfer is announced by the log line just before it
LogBeforeEachCall ==
    /\ \A j \in Idx :
          trace[j].kind = "call" =>
              /\ j > 1
              /\ trace[j - 1].kind = "log"
              /\ trace[j - 1].pass = trace[j].pass
              /\ trace[j - 1].pos = trace[j].pos
    /\ \A j \in Idx :
          trace[j].kind = "log" =>
              /\ j < Len(trace)
              /\ trace[j + 1].kind = "call"

\* C16 as stated: every pass that has run has one log line before each of
\* its transfers and one summary line.
C16_SummaryEveryPass ==
    pc = "done" =>
        /\ LogBeforeEachCall
        /\ \A pass \in {"rebuild", "restore"} :
               PassRan(pass) => Cardinality(Summaries(pass)) = 1

\* C16 amended: every transfer a pass attempts has its log line just
\* before it; a pass writes at most one summary line, after its last
\* transfer, and writes it exactly when it has transferred every mount
\* without error: a pass that fails writes none.
C16_SummaryOnSuccess ==
    /\ LogBeforeEachCall
    /\ \A pass \in {"rebuild", "restore"} :
          /\ Cardinality(Summaries(pass)) <= 1
          /\ \A s \in Summaries(pass) :
                 /\ PassComplete(pass)
                 /\ \A k \in Idx : (trace[k].pass = pass /\ k # s) => k < s
          /\ pc = "done" =>
                 (Summaries(pass) # {} <=> (PassRan(pass) /\ PassComplete(pass)))

C16_Witness ==
    /\ pc = "done"
    /\ p.Rebuild /\ p.Restore
    /\ Len(p.Mount) = 3
    /\ result.kind = "TransportError"
    /\ result.pos = 2
    /\ Summaries("rebuild") # {}
    /\ Summaries("restore") = {}
    /\ Len(Calls(trace, "restore")) = 2

\* C17: a pass that reaches its summary has issued one transfer for each
\* list position; with an empty list Exec issues none and returns nil; the
\* workspace changes only through a download that succeeded, so it is as
\* at the start during the rebuild pass and after a run with only Rebuild
\* set; a run without a rebuild pass leaves the remote store as it was.
C17_TransferCounts ==
    /\ \A pass \in {"rebuild", "restore"} :
          Summaries(pass) # {} =>
              /\ Len(Calls(trace, pass)) = Len(p.Mount)
              /\ PassComplete(pass)
    /\ (pc = "done" /\ p.Mount = <<>>) =>
          /\ result = Nil
          /\ \A k \in Idx : trace[k].kind = "summary"
    /\ Rets(trace, "restore") = <<>> => local = start.local
    /\ pc \in {"rebuildLoop", "Upload"} => local = start.local
    /\ (p.Rebuild /\ ~p.Restore) => local = start.local
    /\ ~p.Rebuild => remote = start.remote
    /\ \A k \in Idx :
          /\ (trace[k].kind = "call" /\ trace[k].pass = "rebuild") => trace[k].obj # NoObj
          /\ (trace[k].kind = "call" /\ trace[k].pass = "restore") => trace[k].obj = NoObj

C17_Witness ==
    /\ pc = "done"
    /\ run = 2
    /\ p.Rebuild /\ ~p.Restore
    /\ Len(p.Mount) = 3
    /\ result = Nil
    /\ remote # start.remote
    /\ local = start.local
    /\ Len(Calls(trace, "rebuild")) = 3

\* C18: when every transfer that is issued returns, Exec reaches its final
\* state; a pass issues at most one transfer per list position, and none
\* when its flag is not set; once Exec has returned nothing is transferred
\* and neither store changes.
C18_Termination ==
    /\ <>(pc = "done")
    /\ [](/\ Len(Calls(trace, "rebuild")) <= (IF p.Rebuild THEN Len(p.Mount) ELSE 0)
          /\ Len(Calls(trace, "restore")) <= (IF p.Restore THEN Len(p.Mount) ELSE 0)
          /\ pc = "done" => result # Pending)
    /\ [][pc = "done" =>
            /\ pc' = "done"
            /\ trace' = trace
            /\ remote' = remote
            /\ local' = local
            /\ result' = result]_vars

C18_Witness ==
    /\ pc = "done"
    /\ run = 1
    /\ p.Rebuild /\ p.Restore
    /\ Len(p.Mount) = 3
    /\ result = Nil
    /\ Len(Calls(trace, "rebuild")) = 3
    /\ Len(Calls(trace, "restore")) = 3

====
